---- MODULE Spec2Model ----
(***************************************************************************)
(* A model of the RAG email compliance system:                             *)
(*   src/src/utils/risk_calculator.py   RiskCalculator                     *)
(*   src/src/vectorstore/vector_db.py   VectorStoreManager                 *)
(*   src/src/utils/shared_resources.py  SharedResources                    *)
(*   src/src/rag/retriever.py           ComplianceRetriever                *)
(*   src/src/rag/classifier.py          EmailClassifier                    *)
(*   src/src/models/llm_models.py       create_document_from_row           *)
(*   src/src/backend.py                 ComplianceBackend                  *)
(*                                                                         *)
(* Text is modelled as a sequence of one-character strings, so that        *)
(* lower(), strip(), split() and join() are computed, not assumed.         *)
(* Numbers that may carry decimals (weights, scores) are in thousandths.   *)
(***************************************************************************)
EXTENDS Integers, Sequences, FiniteSets, TLC

VARIABLES
    trusted_domains,   \* settings.trusted_domains: a list of domain texts
    weights,           \* settings.weights: category name -> weight (thousandths) or None
    search_type,       \* settings.search_type, which the classifier's retriever is built with
    r_pc,              \* risk scorer harness: "call" before, "done" after the call
    r_categories,      \* argument categories of calculate_risk_score
    r_sender,          \* argument sender
    r_receiver,        \* argument receiver
    r_score,           \* value returned by calculate_risk_score (thousandths)
    disk,              \* the persisted index at settings.persist_directory: <<>> when the
                       \* directory does not exist, else <<docs>>
    mgr,               \* per store handle: the VectorStoreManager it holds, <<>> before it
                       \* is constructed, else <<docs of its in-memory FAISS index>>
    added,             \* ids of the records whose add_documents call has returned
    last_search,       \* the last similarity search: <<>> or <<[handle, query, k, known, result]>>
    batch,             \* the rows classify_batch was called with
    b_pc,              \* where classify_batch is: "idle", a stage of classify_email,
                       \* "returned" or "raised"
    idx,               \* the row the loop is at (1-based)
    similar_docs,      \* classify_email's local: the retrieved documents
    prompt_input,      \* classify_email's local: <<>> or <<the prompt input>>
    response,          \* classify_email's local: <<>> or <<the model's output>>
    parsed,            \* classify_email's locals category and classification: <<>> or <<[...]>>
    results,           \* classify_batch's local list results
    returned,          \* <<>> or <<the list classify_batch returned>>
    errors,            \* rows whose exception the loop caught ("Error on email ...")
    lookup_failed,     \* rows whose similarity lookup raised
    said_yes,          \* rows whose parsed verdict has non_compliant == "Yes"
    calls,             \* per row, how often the model was invoked
    log,               \* the stages run for the row the loop is at, in order
    last_ingest,       \* the last load_sample_data / add_classified_emails call: <<>> or
                       \* <<[op, rows, first]>>, first the index position of its first document
    last_lookup,       \* the last ComplianceRetriever call: <<>> or <<[op, query, k, ...]>>
    initialized,       \* SharedResources._initialized
    llm,               \* SharedResources.llm: <<>> (None) or <<the instance>>
    vectorstore_manager, \* SharedResources.vectorstore_manager: <<>> or <<the instance>>
    retriever,         \* SharedResources.retriever: <<>> or <<[id, of]>>, the retriever
                       \* object and the manager it was got from
    t_pc,              \* per thread: "idle", or the line of SharedResources it is at
    t_op,              \* per thread: the classmethod it is in, "none" when in none
    t_read,            \* per thread: the manager it read to call get_retriever() on
    instances,         \* how many objects get_llm(), VectorStoreManager() and
                       \* get_retriever() have constructed
    init_runs,         \* how often the body of initialize was entered
    reloads,           \* how often reload_vectorstore was called
    overlapped,        \* whether a call ever started while another thread was in one
    got                \* per accessor, the instances it has returned

configVars == <<trusted_domains, weights, search_type>>
riskVars == <<r_pc, r_categories, r_sender, r_receiver, r_score>>
storeVars == <<disk, mgr, added, last_search>>
batchVars == <<batch, b_pc, idx, similar_docs, prompt_input, response, parsed, results,
               returned, errors, lookup_failed, said_yes, calls, log>>
callVars == <<last_ingest, last_lookup>>
sharedVars == <<initialized, llm, vectorstore_manager, retriever, t_pc, t_op, t_read, instances,
                init_runs, reloads, overlapped, got>>
vars == <<configVars, riskVars, storeVars, batchVars, callVars, sharedVars>>

----------------------------------------------------------------------------
(* Bounds of the model *)

\* longest category list handed to the risk scorer
MaxCats == 2

\* number of distinct records the store operations may add
MaxDocs == 2

\* longest batch handed to classify_batch
MaxBatch == 3

\* threads that call SharedResources, and calls of reload_vectorstore they make
MaxThreads == 2
MaxReloads == 1

Threads == 1..MaxThreads

\* the accessors of SharedResources that return a constructed instance
Accessors == {"get_llm", "get_vectorstore_manager", "get_retriever"}

\* the class attributes of SharedResources as the class statement leaves them,
\* no thread in a call
SharedAtRest ==
    /\ initialized = FALSE
    /\ llm = <<>>
    /\ vectorstore_manager = <<>>
    /\ retriever = <<>>
    /\ t_pc = [t \in Threads |-> "idle"]
    /\ t_op = [t \in Threads |-> "none"]
    /\ t_read = [t \in Threads |-> <<>>]
    /\ instances = 0
    /\ init_runs = 0
    /\ reloads = 0
    /\ overlapped = FALSE
    /\ got = [a \in Accessors |-> {}]

----------------------------------------------------------------------------
(* Text helpers: Python str methods on sequences of characters *)

\* Python's None where a number may stand: the empty tuple, a number n is <<n>>
None == <<>>
Some(n) == <<n>>

UpperLetters == << "A", "B", "C", "D", "E", "F", "G", "H", "I", "J", "K", "L", "M",
                   "N", "O", "P", "Q", "R", "S", "T", "U", "V", "W", "X", "Y", "Z" >>
LowerLetters == << "a", "b", "c", "d", "e", "f", "g", "h", "i", "j", "k", "l", "m",
                   "n", "o", "p", "q", "r", "s", "t", "u", "v", "w", "x", "y", "z" >>

\* str.lower() on one character
LowerChar(c) ==
    IF \E i \in 1..Len(UpperLetters) : UpperLetters[i] = c
    THEN LowerLetters[CHOOSE i \in 1..Len(UpperLetters) : UpperLetters[i] = c]
    ELSE c

\* str.lower()
Lower(s) == [i \in 1..Len(s) |-> LowerChar(s[i])]

IsSpace(c) == c = " "

RECURSIVE LStrip(_)
LStrip(s) == IF s # <<>> /\ IsSpace(Head(s)) THEN LStrip(Tail(s)) ELSE s

RECURSIVE RStrip(_)
RStrip(s) ==
    IF s # <<>> /\ IsSpace(s[Len(s)]) THEN RStrip(SubSeq(s, 1, Len(s) - 1)) ELSE s

\* str.strip()
Strip(s) == RStrip(LStrip(s))

\* str.split(sep) for a one-character separator: always at least one piece
RECURSIVE SplitFrom(_, _, _)
SplitFrom(s, sep, cur) ==
    IF s = <<>> THEN <<cur>>
    ELSE IF Head(s) = sep THEN <<cur>> \o SplitFrom(Tail(s), sep, <<>>)
    ELSE SplitFrom(Tail(s), sep, Append(cur, Head(s)))

Split(s, sep) == SplitFrom(s, sep, <<>>)

\* sep.join(parts)
RECURSIVE Join(_, _)
Join(parts, sep) ==
    IF parts = <<>> THEN <<>>
    ELSE IF Len(parts) = 1 THEN parts[1]
    ELSE parts[1] \o sep \o Join(Tail(parts), sep)

\* the sequences over S of length at most n
RECURSIVE SeqsUpTo(_, _)
SeqsUpTo(S, n) ==
    IF n = 0 THEN { <<>> }
    ELSE LET shorter == SeqsUpTo(S, n - 1)
         IN shorter \cup { Append(s, x) : s \in shorter, x \in S }

\* address.split('@')[-1].lower()
DomainOf(address) ==
    LET pieces == Split(address, "@") IN Lower(pieces[Len(pieces)])

----------------------------------------------------------------------------
(* Texts the model draws its inputs from *)

xcom == <<"x", ".", "c", "o", "m">>
ycom == <<"y", ".", "c", "o", "m">>
Xcom == <<"X", ".", "C", "O", "M">>

a_at_x == <<"a", "@">> \o xcom
b_at_x == <<"b", "@">> \o xcom
b_at_X == <<"b", "@">> \o Xcom
b_at_y == <<"b", "@">> \o ycom
noat   == <<"a">>

Secrecy   == <<"S", "e", "c", "r", "e", "c", "y">>
Market    == <<"M", "a", "r", "k", "e", "t">>
Unknown   == <<"U", "n", "k", "n", "o", "w", "n">>
Compliant == <<"C", "o", "m", "p", "l", "i", "a", "n", "t">>
SpSecrecy == <<" ">> \o Secrecy

Addresses == {a_at_x, b_at_x, b_at_X, b_at_y, noat}
CategoryNames == {Secrecy, Market, Unknown, SpSecrecy}

\* the weight tables the configuration may hold; a weight is in thousandths,
\* a multiple of 125 so that the float the code adds is exact
WeightTables ==
    { [n \in {Secrecy, Market} |-> IF n = Secrecy THEN Some(10000) ELSE Some(5000)],
      [n \in {Secrecy, Market} |-> IF n = Secrecy THEN Some(10000) ELSE Some(2125)],
      [n \in {Secrecy, Market} |-> IF n = Secrecy THEN Some(375) ELSE None] }

DefaultWeights == [n \in {Secrecy, Market} |-> IF n = Secrecy THEN Some(10000) ELSE Some(5000)]

\* the trusted-domain lists the configuration may hold
\* (settings.py:38 defaults to one domain)
TrustedLists == { <<>>, <<xcom>>, <<ycom>>, <<xcom, ycom>>, <<ycom, xcom>> }

----------------------------------------------------------------------------
(* RiskCalculator.calculate_risk_score *)

\* the loop over settings.trusted_domains: 1 at the first domain that the
\* sender's or the receiver's domain differs from, 0 when the loop runs out
RECURSIVE ExternalScore(_, _, _)
ExternalScore(domains, sender_domain, receiver_domain) ==
    IF domains = <<>> THEN 0
    ELSE IF sender_domain # Head(domains) \/ receiver_domain # Head(domains) THEN 1
    ELSE ExternalScore(Tail(domains), sender_domain, receiver_domain)

\* settings.weights.get(cat)
WeightsGet(w, cat) == IF cat \in DOMAIN w THEN w[cat] ELSE None

\* the loop over categories: adds the weight of each stripped name that has one
RECURSIVE CategoryWeightSum(_, _)
CategoryWeightSum(w, categories) ==
    IF categories = <<>> THEN 0
    ELSE LET category_weight == WeightsGet(w, Strip(Head(categories)))
         IN (IF category_weight # None THEN category_weight[1] ELSE 0)
            + CategoryWeightSum(w, Tail(categories))

\* a rounding that cuts the third decimal off instead of rounding it
Round2Truncating(milli) == (milli \div 10) * 10

\* round(x, 2) of a non-negative number in thousandths: to the nearest
\* hundredth, a tie going to the even hundredth
Round2(milli) ==
    LET q == milli \div 10
        r == milli % 10
    IN  IF r < 5 THEN q * 10
        ELSE IF r > 5 THEN (q + 1) * 10
        ELSE IF q % 2 = 0 THEN q * 10 ELSE (q + 1) * 10

calculate_risk_score(domains, w, categories, sender, receiver) ==
    LET sender_domain == DomainOf(sender)
        receiver_domain == DomainOf(receiver)
        external_score == ExternalScore(domains, sender_domain, receiver_domain)
        risk_score == CategoryWeightSum(w, categories) + external_score * 1000
    IN  Round2(risk_score)

----------------------------------------------------------------------------
(* VectorStoreManager: the FAISS index in memory and on disk *)

\* the places of the process that construct a VectorStoreManager of their own:
\* EmailClassifier.__init__, ComplianceRetriever.__init__ (no manager passed),
\* SharedResources.initialize / reload_vectorstore
Handles == {"classifier", "retriever", "shared"}

\* the document FAISS.from_texts(["initialization"], ...) bootstraps the index with
Placeholder == [id |-> 0, page_content |-> "initialization"]

\* the body texts of the model, each with an embedding of its own
BodyTexts == << "body 1", "body 2", "body 3", "body 4", "body 5", "body 6" >>

\* the records callers add; the id stands for the uuid FAISS gives each added document
Records == { [id |-> i, page_content |-> BodyTexts[i]] : i \in 1..MaxDocs }

Range(seq) == { seq[i] : i \in 1..Len(seq) }

\* the embedding of a text on a line: identical texts embed identically
Embed(text) ==
    IF text = "initialization" THEN 0
    ELSE CHOOSE i \in 1..Len(BodyTexts) : BodyTexts[i] = text

\* distance between the query's embedding and a document's
Dist(query, doc) ==
    LET q == Embed(query)
        d == Embed(doc.page_content)
    IN  IF q >= d THEN q - d ELSE d - q

\* documents nearest-first, equal distances in index order
RECURSIVE InsertByDist(_, _, _)
InsertByDist(query, doc, sorted) ==
    IF sorted = <<>> THEN <<doc>>
    ELSE IF Dist(query, doc) < Dist(query, Head(sorted)) THEN <<doc>> \o sorted
    ELSE <<Head(sorted)>> \o InsertByDist(query, doc, Tail(sorted))

RECURSIVE NearestFirst(_, _)
NearestFirst(query, docs) ==
    IF docs = <<>> THEN <<>>
    ELSE InsertByDist(query, docs[Len(docs)],
                      NearestFirst(query, SubSeq(docs, 1, Len(docs) - 1)))

FirstK(seq, k) == SubSeq(seq, 1, IF k < Len(seq) THEN k ELSE Len(seq))

\* VectorStoreManager._load_or_create: the index the new manager holds
load_or_create(persisted) ==
    IF persisted # <<>> THEN persisted[1] ELSE <<Placeholder>>

\* VectorStoreManager.similarity_search: the k nearest documents of the index
similarity_search(index, query, k) == FirstK(NearestFirst(query, index), k)

\* VectorStoreManager.__init__ at a place that has no manager yet
\* (SharedResources.initialize returns early once initialized)
NewManager(h) ==
    /\ mgr[h] = <<>>
    /\ mgr' = [mgr EXCEPT ![h] = <<load_or_create(disk)>>]
    /\ UNCHANGED <<disk, added, last_search>>

\* SharedResources.reload_vectorstore: a new manager replaces the shared one
reload_vectorstore ==
    /\ mgr["shared"] # <<>>
    /\ mgr' = [mgr EXCEPT !["shared"] = <<load_or_create(disk)>>]
    /\ UNCHANGED <<disk, added, last_search>>

\* the index after vectorstore.add_documents(documents)
add_to_index(index, documents) == index \o documents

\* what save() leaves on disk
save(index) == <<index>>

\* VectorStoreManager.add_documents returning: the documents join the manager's
\* index and the whole index is written over the persisted one
add_documents(h, documents) ==
    /\ mgr[h] # <<>>
    /\ mgr' = [mgr EXCEPT ![h] = <<add_to_index(mgr[h][1], documents)>>]
    /\ disk' = save(mgr'[h][1])
    /\ added' = added \cup { d.id : d \in Range(documents) }
    /\ UNCHANGED last_search

\* VectorStoreManager.add_documents raising in save(): the index in memory has
\* grown, the persisted one is as it was, and the call has not returned
add_documents_save_raises(h, documents) ==
    /\ mgr[h] # <<>>
    /\ mgr' = [mgr EXCEPT ![h] = <<add_to_index(mgr[h][1], documents)>>]
    /\ UNCHANGED <<disk, added, last_search>>

\* VectorStoreManager.save called on its own: the manager's index, whatever its
\* age, is written over the persisted one
Save ==
    \E h \in Handles :
        /\ mgr[h] # <<>>
        /\ disk' = save(mgr[h][1])
        /\ UNCHANGED <<mgr, added, last_search>>

\* the documents of one add call: records no call has been given before
FreshBatches ==
    LET used == UNION { { d.id : d \in Range(mgr[h][1]) } : h \in { x \in Handles : mgr[x] # <<>> } }
        fresh == { r \in Records : r.id \notin used }
    IN  { <<r>> : r \in fresh }
        \cup { <<p[1], p[2]>> : p \in { q \in fresh \X fresh : q[1].id < q[2].id } }

AddDocuments == \E h \in Handles : \E documents \in FreshBatches : add_documents(h, documents)

AddDocumentsSaveRaises ==
    \E h \in Handles : \E documents \in FreshBatches : add_documents_save_raises(h, documents)

\* a similarity search through one handle, for the nearest document or for as
\* many as the store can hold; "known" are the records whose add had returned
\* when the search was issued
SimilaritySearch ==
    \E h \in Handles : \E query \in {BodyTexts[1], BodyTexts[MaxDocs]} :
      \E k \in {1, MaxDocs + 1} :
        /\ mgr[h] # <<>>
        /\ last_search' = << [handle |-> h, query |-> query, k |-> k, known |-> added,
                              result |-> similarity_search(mgr[h][1], query, k)] >>
        /\ UNCHANGED <<disk, mgr, added>>

StoreInit ==
    /\ trusted_domains = <<xcom>>
    /\ weights = DefaultWeights
    /\ search_type = "similarity"
    /\ r_pc = "done"
    /\ r_categories = <<>>
    /\ r_sender = a_at_x
    /\ r_receiver = a_at_x
    /\ r_score = 0
    /\ disk = <<>>
    /\ mgr = [h \in Handles |-> <<>>]
    /\ added = {}
    /\ last_search = <<>>
    /\ batch = <<>>
    /\ b_pc = "off"
    /\ idx = 1
    /\ similar_docs = <<>>
    /\ prompt_input = <<>>
    /\ response = <<>>
    /\ parsed = <<>>
    /\ results = <<>>
    /\ returned = <<>>
    /\ errors = {}
    /\ lookup_failed = {}
    /\ said_yes = {}
    /\ calls = <<>>
    /\ log = <<>>
    /\ last_ingest = <<>>
    /\ last_lookup = <<>>
    /\ SharedAtRest

StoreNext ==
    \/ (\E h \in Handles : NewManager(h)) /\ UNCHANGED <<configVars, sharedVars, riskVars, batchVars, callVars>>
    \/ reload_vectorstore /\ UNCHANGED <<configVars, sharedVars, riskVars, batchVars, callVars>>
    \/ AddDocuments /\ UNCHANGED <<configVars, sharedVars, riskVars, batchVars, callVars>>
    \/ AddDocumentsSaveRaises /\ UNCHANGED <<configVars, sharedVars, riskVars, batchVars, callVars>>
    \/ Save /\ UNCHANGED <<configVars, sharedVars, riskVars, batchVars, callVars>>
    \/ SimilaritySearch /\ UNCHANGED <<configVars, sharedVars, riskVars, batchVars, callVars>>

SpecStore == StoreInit /\ [][StoreNext]_vars

----------------------------------------------------------------------------
(* EmailClassifier.classify_email and classify_batch *)

\* the k of settings.search_kwargs the classifier's retriever is built with
SearchK == 3

\* a cell pandas read as missing: a float, not a str
NaN == << "<NaN>" >>

nan == <<"n", "a", "n">>

\* the rows of a batch: From, To and the body (by the embedding it has)
Emails ==
    { [From |-> a_at_x, To |-> b_at_x, Body |-> BodyTexts[1]],
      [From |-> a_at_x, To |-> b_at_y, Body |-> BodyTexts[2]],
      [From |-> NaN,    To |-> b_at_x, Body |-> BodyTexts[1]] }

\* the "Category" of a verdict: absent, a str, a list of str, or a number
CatAbsent == [t |-> "absent", v |-> <<>>]
CatStr(text) == [t |-> "str", v |-> <<text>>]
CatList(names) == [t |-> "list", v |-> names]
CatNum == [t |-> "num", v |-> <<>>]

\* what the model may answer: a JSON object (flag, Category, evidence), text that
\* is no JSON ("malformed"), or JSON that is no object ("list")
Verdict(flag, cat, ev) ==
    [kind |-> "dict", non_compliant |-> flag, Category |-> cat, evidence |-> ev]

ModelOutputs ==
    { Verdict("Yes", CatStr(Secrecy), "list"),
      Verdict("Yes", CatList(<<Secrecy, Market>>), "list"),
      Verdict("Yes", CatStr(Unknown), "absent"),
      Verdict("Yes", CatStr(nan), "list"),
      Verdict("No", CatStr(Compliant), "list"),
      Verdict("No", CatStr(Secrecy), "list"),
      Verdict("absent", CatAbsent, "absent"),
      Verdict("Yes", CatNum, "list"),
      Verdict("Yes", CatStr(Secrecy), "num"),
      [kind |-> "malformed", non_compliant |-> "absent", Category |-> CatAbsent,
       evidence |-> "absent"],
      [kind |-> "list", non_compliant |-> "absent", Category |-> CatAbsent,
       evidence |-> "absent"] }

----------------------------------------------------------------------------
(* create_document_from_row, load_sample_data and add_classified_emails *)

\* a Category cell that holds None, and one pandas read as missing (a float)
CatNone == [t |-> "none", v |-> <<>>]
CatNaN == [t |-> "float", v |-> <<>>]

\* a column the row does not have
Absent == "<absent>"

\* settings.categories: the configured category vocabulary
settings_categories == {Secrecy, Market}

\* the Document of a row: Classification and Category default to "Compliant",
\* a "Compliant" classification, a None or an empty Category give "Compliant",
\* and a str Category is wrapped in a list; any other value is stored as it is
create_document_from_row(row, id) ==
    LET classification == IF row.Classification = Absent THEN "Compliant"
                          ELSE row.Classification
        given == IF row.Category = CatAbsent THEN CatStr(Compliant) ELSE row.Category
        category == IF classification = "Compliant" \/ given = CatNone \/ given = CatStr(<<>>)
                    THEN CatStr(Compliant)
                    ELSE given
    IN  [id |-> id, page_content |-> row.Body,
         metadata |-> [From |-> row.From, To |-> row.To,
                       Category |-> IF category.t = "str" THEN CatList(<<category.v[1]>>)
                                    ELSE category,
                       Classification |-> classification]]

\* [create_document_from_row(row, ...) for _, row in df.iterrows()]; the ids
\* stand for the uuids FAISS gives the documents when they are added
documents_of(rows, index) ==
    [i \in 1..Len(rows) |-> create_document_from_row(rows[i], Len(index) + i - 1)]

\* load_sample_data(file_obj) and add_classified_emails(df): the rows become
\* documents, which add_documents puts into the classifier's store in one call
ingest(op, rows) ==
    /\ add_documents("classifier", documents_of(rows, mgr["classifier"][1]))
    /\ last_ingest' = << [op |-> op, rows |-> rows, first |-> Len(mgr["classifier"][1]) + 1] >>

load_sample_data(rows) == ingest("load_sample_data", rows)

add_classified_emails(df) == ingest("add_classified_emails", df)

----------------------------------------------------------------------------
(* The examples text of a prompt *)

\* doc.metadata.get(key, default); the bootstrap record has no metadata
MetadataGet(doc, key, default) ==
    IF "metadata" \in DOMAIN doc /\ key \in DOMAIN doc.metadata
    THEN doc.metadata[key]
    ELSE default

\* a text of the model as a str
RECURSIVE Str(_)
Str(chars) == IF chars = <<>> THEN "" ELSE Head(chars) \o Str(Tail(chars))

\* sep.join(parts) for strs
RECURSIVE JoinStr(_, _)
JoinStr(parts, sep) ==
    IF parts = <<>> THEN ""
    ELSE IF Len(parts) = 1 THEN parts[1]
    ELSE parts[1] \o sep \o JoinStr(Tail(parts), sep)

\* f"{category}": the repr of a list of str, or of the float NaN
Repr(category) ==
    IF category.t = "list"
    THEN "[" \o JoinStr([i \in 1..Len(category.v) |-> "'" \o Str(category.v[i]) \o "'"], ", ")
             \o "]"
    ELSE "nan"

\* EmailClassifier._format_examples: a block per document, joined by newlines;
\* the bodies of the model have no surrounding whitespace for strip() to remove
format_examples(docs) ==
    JoinStr([i \in 1..Len(docs) |->
                "Category: " \o Repr(MetadataGet(docs[i], "Category", CatList(<<Unknown>>)))
                    \o "\nBody: " \o docs[i].page_content \o "\n"],
            "\n")

\* ComplianceRetriever.format_examples_for_prompt: the sentinel text for no
\* documents, else a numbered block per document
format_examples_for_prompt(documents) ==
    IF documents = <<>>
    THEN "No similar examples found. Classify based on general compliance knowledge."
    ELSE JoinStr([i \in 1..Len(documents) |->
                    LET category == MetadataGet(documents[i], "Category", CatList(<<Unknown>>))
                        category_str == IF category.t = "list"
                                        THEN Str(Join(category.v, <<",", " ">>))
                                        ELSE "nan"
                    IN  "Example " \o ToString(i) \o ":\nClassification: "
                            \o MetadataGet(documents[i], "Classification", "Unknown")
                            \o "\nCategory: " \o category_str
                            \o "\nBody: " \o documents[i].page_content \o "\n"],
                 "\n")

\* the retriever get_retriever builds from settings.search_type and
\* settings.search_kwargs: the k nearest documents, of which the search type
\* "similarity_score_threshold" keeps only those that score as the threshold
\* asks (here: those whose embedding is the query's)
get_relevant_documents(index, query) ==
    LET nearest == similarity_search(index, query, SearchK)
    IN  IF search_type = "similarity_score_threshold"
        THEN SelectSeq(nearest, LAMBDA d : Dist(query, d) = 0)
        ELSE nearest

StageOrder == <<"Retrieval", "Prompt", "Model", "Parse", "Score">>

\* an order in which the model is invoked before the prompt input is built
StageAfterSwapped(stage) ==
    CASE stage = "retrieve" -> "invoke"
      [] stage = "invoke" -> "prompt"
      [] stage = "prompt" -> "parse"
      [] stage = "parse" -> "score"

\* the order of the statements of classify_email
StageAfter(stage) ==
    CASE stage = "retrieve" -> "prompt"
      [] stage = "prompt" -> "invoke"
      [] stage = "invoke" -> "parse"
      [] stage = "parse" -> "score"

\* a handler that catches the parser's exception only
CaughtParserOnly(exc) == exc = "OutputParserException"

\* "except Exception": every exception the stages raise derives from Exception
Caught(exc) ==
    exc \in {"StoreError", "APIError", "OutputParserException", "AttributeError",
             "TypeError"}

\* a normalization that takes the first element of a list for the category
normalize_category_first(result) ==
    LET cat == result.Category
    IN  IF cat.t \in {"absent", "none"} THEN [is_text |-> TRUE, text |-> Compliant]
        ELSE IF cat.t = "str"
             THEN IF cat.v[1] = nan \/ cat.v[1] = <<>>
                  THEN [is_text |-> TRUE, text |-> Compliant]
                  ELSE [is_text |-> TRUE, text |-> cat.v[1]]
        ELSE IF cat.t = "list"
             THEN IF cat.v = <<>>
                  THEN [is_text |-> TRUE, text |-> Compliant]
                  ELSE [is_text |-> TRUE, text |-> cat.v[1]]
        ELSE [is_text |-> FALSE, text |-> <<>>]

\* result.get("Category", "Compliant"), the nan/empty default and the join of a
\* list: the category text, or no text when the value is a (non-zero) number
normalize_category(result) ==
    LET cat == result.Category
    IN  IF cat.t \in {"absent", "none"} THEN [is_text |-> TRUE, text |-> Compliant]
        ELSE IF cat.t = "str"
             THEN IF cat.v[1] = nan \/ cat.v[1] = <<>>
                  THEN [is_text |-> TRUE, text |-> Compliant]
                  ELSE [is_text |-> TRUE, text |-> cat.v[1]]
        ELSE IF cat.t = "list"
             THEN IF cat.v = <<>>
                  THEN [is_text |-> TRUE, text |-> Compliant]
                  ELSE [is_text |-> TRUE, text |-> Join(cat.v, <<",", " ">>)]
        ELSE [is_text |-> FALSE, text |-> <<>>]

\* a classification that takes every flag but "No" for non-compliant
classification_of_not_no(result) ==
    IF result.non_compliant # "No" THEN "Non-Compliant" ELSE "Compliant"

\* "Non-Compliant" if result.get("non_compliant") == "Yes" else "Compliant"
classification_of(result) ==
    IF result.non_compliant = "Yes" THEN "Non-Compliant" ELSE "Compliant"

\* [cat.strip() for cat in category.split(",")]
category_list(category) ==
    LET pieces == Split(category, ",")
    IN  [i \in 1..Len(pieces) |-> Strip(pieces[i])]

\* an insertion that puts a result in front of those of equal score
RECURSIVE InsertDescendingUnstable(_, _)
InsertDescendingUnstable(r, sorted) ==
    IF sorted = <<>> THEN <<r>>
    ELSE IF Head(sorted).Risk_Score > r.Risk_Score
         THEN <<Head(sorted)>> \o InsertDescendingUnstable(r, Tail(sorted))
         ELSE <<r>> \o sorted

\* stable insertion of a result into a list in descending Risk Score order:
\* behind every result whose score is not smaller
RECURSIVE InsertDescending(_, _)
InsertDescending(r, sorted) ==
    IF sorted = <<>> THEN <<r>>
    ELSE IF Head(sorted).Risk_Score >= r.Risk_Score
         THEN <<Head(sorted)>> \o InsertDescending(r, Tail(sorted))
         ELSE <<r>> \o sorted

\* sorted(non_compliant, key=lambda x: x.Risk_Score, reverse=True)
RECURSIVE SortedDescending(_)
SortedDescending(rs) ==
    IF rs = <<>> THEN <<>>
    ELSE InsertDescending(rs[Len(rs)], SortedDescending(SubSeq(rs, 1, Len(rs) - 1)))

IsNonCompliant(r) == r.Classification = "Non-Compliant"

\* an end of classify_batch that sorts every result, compliant ones too
sort_without_filter(rs) == SortedDescending(rs)

\* the filter and the sort that end classify_batch
filter_and_sort(rs) == SortedDescending(SelectSeq(rs, IsNonCompliant))

\* a loop that feeds every row it has dealt with back into the store
EmailEndsFeedback(new_results, new_errors) ==
    /\ results' = new_results
    /\ errors' = new_errors
    /\ similar_docs' = <<>>
    /\ prompt_input' = <<>>
    /\ response' = <<>>
    /\ parsed' = <<>>
    /\ mgr' = [mgr EXCEPT !["classifier"] =
                  <<add_to_index(mgr["classifier"][1],
                                 << [id |-> Len(mgr["classifier"][1]),
                                     page_content |-> batch[idx].Body] >>)>>]
    /\ disk' = save(mgr'["classifier"][1])
    /\ IF idx < Len(batch)
       THEN idx' = idx + 1 /\ b_pc' = "retrieve" /\ returned' = <<>>
       ELSE idx' = idx /\ b_pc' = "returned"
            /\ returned' = <<filter_and_sort(new_results)>>

\* the end of one pass of the loop of classify_batch; past the last row the
\* filter and the sort run and the batch returns
EmailEnds(new_results, new_errors) ==
    /\ results' = new_results
    /\ errors' = new_errors
    /\ similar_docs' = <<>>
    /\ prompt_input' = <<>>
    /\ response' = <<>>
    /\ parsed' = <<>>
    /\ UNCHANGED <<disk, mgr>>
    /\ IF idx < Len(batch)
       THEN idx' = idx + 1 /\ b_pc' = "retrieve" /\ returned' = <<>>
       ELSE idx' = idx /\ b_pc' = "returned"
            /\ returned' = <<filter_and_sort(new_results)>>

\* an exception leaves classify_email: the loop's handler catches it, or it
\* leaves classify_batch
Raises(exc) ==
    IF Caught(exc)
    THEN EmailEnds(results, errors \cup {idx})
    ELSE /\ b_pc' = "raised"
         /\ UNCHANGED <<results, errors, idx, returned, similar_docs, prompt_input,
                        response, parsed, disk, mgr>>

\* classify_batch is called: pd.read_csv reads the rows, or raises on a file it
\* cannot parse, outside the loop's try; a file without rows returns at once
ClassifyBatch ==
    /\ b_pc = "idle"
    /\ \/ \E rows \in SeqsUpTo(Emails, MaxBatch) :
            /\ batch' = rows
            /\ calls' = [i \in 1..Len(rows) |-> 0]
            /\ IF rows = <<>>
               THEN b_pc' = "returned" /\ returned' = <<filter_and_sort(<<>>)>>
               ELSE b_pc' = "retrieve" /\ returned' = <<>>
       \/ /\ b_pc' = "raised"
          /\ UNCHANGED <<batch, calls, returned>>
    /\ idx' = 1
    /\ log' = <<>>
    /\ UNCHANGED <<similar_docs, prompt_input, response, parsed, results, errors,
                   lookup_failed, said_yes, disk, mgr>>

\* self.retriever.get_relevant_documents(row["Body"]): the documents, or the
\* store's exception, which nothing in classify_email catches
Retrieve ==
    /\ b_pc = "retrieve"
    /\ log' = <<"Retrieval">>
    /\ \/ /\ similar_docs' = get_relevant_documents(mgr["classifier"][1], batch[idx].Body)
          /\ b_pc' = StageAfter("retrieve")
          /\ UNCHANGED <<idx, prompt_input, response, parsed, results, returned, errors,
                         lookup_failed, disk, mgr>>
       \/ /\ lookup_failed' = lookup_failed \cup {idx}
          /\ Raises("StoreError")
    /\ UNCHANGED <<batch, said_yes, calls>>

\* the prompt input of a row and its retrieved documents
build_prompt_input(row, docs) ==
    [From |-> row.From, To |-> row.To, Body |-> row.Body,
     examples |-> format_examples(docs)]

\* _format_examples and the prompt input
BuildPrompt ==
    /\ b_pc = "prompt"
    /\ log' = Append(log, "Prompt")
    /\ prompt_input' = <<build_prompt_input(batch[idx], similar_docs)>>
    /\ b_pc' = StageAfter("prompt")
    /\ UNCHANGED <<batch, idx, similar_docs, response, parsed, results, returned, errors,
                   lookup_failed, said_yes, calls, disk, mgr>>

\* chain.invoke: the model answers, or the call raises
Invoke ==
    /\ b_pc = "invoke"
    /\ log' = Append(log, "Model")
    /\ calls' = [calls EXCEPT ![idx] = @ + 1]
    /\ \/ \E out \in ModelOutputs :
            /\ response' = <<out>>
            /\ b_pc' = StageAfter("invoke")
            /\ UNCHANGED <<idx, similar_docs, prompt_input, parsed, results, returned, errors,
                           disk, mgr>>
       \/ Raises("APIError")
    /\ UNCHANGED <<batch, lookup_failed, said_yes>>

\* the JSON parser at the end of the chain, then "Parse result": category and
\* classification
Parse ==
    /\ b_pc = "parse"
    /\ log' = Append(log, "Parse")
    /\ LET out == response[1]
       IN  IF out.kind = "malformed" THEN Raises("OutputParserException") /\ UNCHANGED said_yes
           ELSE IF out.kind # "dict" THEN Raises("AttributeError") /\ UNCHANGED said_yes
           ELSE /\ parsed' = << [category |-> normalize_category(out),
                                 classification |-> classification_of(out)] >>
                /\ said_yes' = IF out.non_compliant = "Yes" THEN said_yes \cup {idx}
                               ELSE said_yes
                /\ b_pc' = StageAfter("parse")
                /\ UNCHANGED <<idx, similar_docs, prompt_input, response, results, returned,
                               errors, disk, mgr>>
    /\ UNCHANGED <<batch, lookup_failed, calls>>

\* the dict classify_email returns
build_result(row, i, classification, category, risk_score) ==
    [Classification |-> classification, Category |-> category,
     Risk_Score |-> risk_score, From |-> row.From, To |-> row.To,
     Body |-> row.Body, idx |-> i]

\* "Calculate risk score", the returned dict, and the loop's append; the split
\* of a number, the split of a missing address and the index into a number raise
Score ==
    /\ b_pc = "score"
    /\ log' = Append(log, "Score")
    /\ LET row == batch[idx]
           category == parsed[1].category
       IN  IF ~category.is_text THEN Raises("AttributeError")
           ELSE IF row.From = NaN \/ row.To = NaN THEN Raises("AttributeError")
           ELSE IF response[1].evidence = "num" THEN Raises("TypeError")
           ELSE EmailEnds(
                    Append(results,
                           build_result(row, idx, parsed[1].classification, category.text,
                                        calculate_risk_score(trusted_domains, weights,
                                                             category_list(category.text),
                                                             row.From, row.To))),
                    errors)
    /\ UNCHANGED <<batch, lookup_failed, said_yes, calls>>

\* pd.DataFrame(results): the rows a caller gives add_classified_emails
row_of_result(r) ==
    [Classification |-> r.Classification, Category |-> CatStr(r.Category),
     From |-> r.From, To |-> r.To, Body |-> r.Body]

\* the caller hands the returned results to add_classified_emails
\* (ComplianceBackend.update_vectorstore_with_classified)
AddClassifiedEmails ==
    /\ b_pc = "returned"
    /\ returned[1] # <<>>
    /\ add_classified_emails([i \in 1..Len(returned[1]) |-> row_of_result(returned[1][i])])
    /\ b_pc' = "fed"
    /\ UNCHANGED <<batch, idx, similar_docs, prompt_input, response, parsed, results,
                   returned, errors, lookup_failed, said_yes, calls, log>>

BatchInit ==
    /\ trusted_domains = <<xcom>>
    /\ weights = DefaultWeights
    /\ search_type = "similarity"
    /\ r_pc = "done"
    /\ r_categories = <<>>
    /\ r_sender = a_at_x
    /\ r_receiver = a_at_x
    /\ r_score = 0
    /\ disk \in { <<>>, save(<<Placeholder>> \o <<[id |-> 1, page_content |-> BodyTexts[1]]>>) }
    /\ mgr = [h \in Handles |-> IF h = "classifier" THEN <<load_or_create(disk)>> ELSE <<>>]
    /\ added = {}
    /\ last_search = <<>>
    /\ batch = <<>>
    /\ b_pc = "idle"
    /\ idx = 1
    /\ similar_docs = <<>>
    /\ prompt_input = <<>>
    /\ response = <<>>
    /\ parsed = <<>>
    /\ results = <<>>
    /\ returned = <<>>
    /\ errors = {}
    /\ lookup_failed = {}
    /\ said_yes = {}
    /\ calls = <<>>
    /\ log = <<>>
    /\ last_ingest = <<>>
    /\ last_lookup = <<>>
    /\ SharedAtRest

BatchNext ==
    \/ ClassifyBatch /\ UNCHANGED <<configVars, sharedVars, riskVars, added, last_search, callVars>>
    \/ Retrieve /\ UNCHANGED <<configVars, sharedVars, riskVars, added, last_search, callVars>>
    \/ BuildPrompt /\ UNCHANGED <<configVars, sharedVars, riskVars, added, last_search, callVars>>
    \/ Invoke /\ UNCHANGED <<configVars, sharedVars, riskVars, added, last_search, callVars>>
    \/ Parse /\ UNCHANGED <<configVars, sharedVars, riskVars, added, last_search, callVars>>
    \/ Score /\ UNCHANGED <<configVars, sharedVars, riskVars, added, last_search, callVars>>
    \/ AddClassifiedEmails /\ UNCHANGED <<configVars, sharedVars, riskVars, last_lookup>>

SpecBatch == BatchInit /\ [][BatchNext]_vars

----------------------------------------------------------------------------
(* Claims about classify_batch and classify_email, checked under SpecBatch *)

Returned == returned[1]
ReturnedRows == { Returned[i].idx : i \in 1..Len(Returned) }
ResultRows == { results[i].idx : i \in 1..Len(results) }

\* C1: classify_batch returns exactly the rows whose processing succeeded and
\* whose verdict has non_compliant == "Yes": every returned record is
\* Non-Compliant, each such row appears once, no compliant or failed row appears.
C1_ReturnsExactlyNonCompliant ==
    b_pc = "returned" =>
        /\ \A i \in 1..Len(Returned) : Returned[i].Classification = "Non-Compliant"
        /\ \A i, j \in 1..Len(Returned) : Returned[i].idx = Returned[j].idx => i = j
        /\ ReturnedRows = said_yes \ errors

C1_Witness ==
    /\ b_pc = "returned"
    /\ Len(batch) = 3
    /\ errors = {1}
    /\ \E i \in 1..Len(results) : results[i].Classification = "Compliant"
    /\ Len(Returned) = 1

\* C2: the returned list is in non-increasing risk-score order and results of
\* equal score keep the order their rows have in the input.
C2_StableDescending ==
    b_pc = "returned" =>
        \A i, j \in 1..Len(Returned) :
            i < j => \/ Returned[i].Risk_Score > Returned[j].Risk_Score
                     \/ /\ Returned[i].Risk_Score = Returned[j].Risk_Score
                        /\ Returned[i].idx < Returned[j].idx

C2_Witness ==
    /\ b_pc = "returned"
    /\ Len(Returned) = 3
    /\ Returned[1].idx = 3
    /\ Returned[2].Risk_Score = Returned[3].Risk_Score
    /\ Returned[1].Risk_Score > Returned[2].Risk_Score

\* C3: when the processing of a row raises, classify_batch does not raise, goes
\* on to every remaining row, and returns the non-compliant results of all the
\* other rows.
C3_FailureIsolated ==
    /\ b_pc = "raised" => (batch = <<>> /\ errors = {})
    /\ b_pc = "returned" =>
          /\ ResultRows \cup errors = 1..Len(batch)
          /\ ResultRows \cap errors = {}
          /\ ReturnedRows = { results[i].idx : i \in { k \in 1..Len(results) :
                                    results[k].Classification = "Non-Compliant" } }

C3_Witness ==
    /\ b_pc = "returned"
    /\ Len(batch) = 3
    /\ errors = {2}
    /\ lookup_failed = {}
    /\ ReturnedRows = {1, 3}

\* C4: when the similarity lookup for a row fails, the row's classification is
\* not aborted: the model is still invoked for it and the row is not among the
\* failed rows of the batch.
C4_LookupFailureRecovered ==
    \A i \in lookup_failed : i \notin errors /\ (i < idx => calls[i] = 1)

\* C11: no step of classify_batch or classify_email changes the Example Store:
\* the records it holds and the persisted index are the same after the step as
\* before, whatever the verdicts; the store changes only when the caller invokes
\* load_sample_data or add_classified_emails.
C11_ClassificationLeavesStore ==
    [][(b_pc \in {"idle", "retrieve", "prompt", "invoke", "parse", "score"})
          => (disk' = disk /\ mgr' = mgr)]_vars

C11_Witness ==
    /\ b_pc = "returned"
    /\ Len(results) = 2
    /\ errors # {}
    /\ Len(Returned) = 1
    /\ last_ingest = <<>>
    /\ disk # <<>>
    /\ mgr["classifier"][1] = disk[1]

\* what the caller of classify_batch observes: whether it returned and what
Outcome == <<b_pc, returned>>

\* the outcome of a batch that was processed and has no non-compliant email
CleanOutcome == <<"returned", << <<>> >> >>

\* C12: a batch whose processing failed (every row raised) never has the
\* outcome of a successfully processed batch without non-compliant email, which
\* is the empty list returned normally: the caller can tell the two apart.
C12_FailedBatchDistinguishable ==
    (batch # <<>> /\ errors = 1..Len(batch)) => Outcome # CleanOutcome

IsPrefix(s, t) == Len(s) <= Len(t) /\ SubSeq(t, 1, Len(s)) = s

\* C10: classify_email runs Retrieval, Prompt build, model invocation, Parse,
\* Risk Scoring in that order, each at most once, the model exactly once per
\* classified row; a row a stage failed for has no result, and a result exists
\* only once every stage has run.
C10_StagesInOrder ==
    /\ IsPrefix(log, StageOrder)
    /\ \A i \in DOMAIN calls : calls[i] <= 1
    /\ \A k \in 1..Len(results) :
          /\ calls[results[k].idx] = 1
          /\ results[k].idx \notin errors
          /\ results[k].idx = idx => log = StageOrder
    /\ \A k, m \in 1..Len(results) : results[k].idx = results[m].idx => k = m

C10_Witness ==
    /\ b_pc = "retrieve"
    /\ idx = 3
    /\ log = <<"Retrieval", "Prompt", "Model", "Parse">>
    /\ errors = {2}
    /\ ResultRows = {1}
    /\ calls = <<1, 1, 0>>

----------------------------------------------------------------------------
(* Claims about the example store, checked under SpecStore *)

\* C5: no similarity search result presented to a caller contains the
\* bootstrap placeholder record, in any store state (fresh, after adds,
\* after a save and a load).
C5_NoPlaceholderInResults ==
    last_search # <<>> => Placeholder \notin Range(last_search[1].result)

\* C6: every record whose add has returned is present in the persisted
\* store, whichever handle added it and whatever was added or saved later.
C6_AddedStaysPersisted ==
    added # {} => /\ disk # <<>>
                  /\ added \subseteq { d.id : d \in Range(disk[1]) }

\* C7: a record whose add had returned when a search was issued is visible
\* to that search, whichever handle issues it: a search wide enough to hold
\* the whole store (k of MaxDocs + 1) returns it.
C7_AddedVisibleToEverySearch ==
    last_search # <<>> =>
        LET s == last_search[1]
        IN  s.k = MaxDocs + 1 =>
                s.known \subseteq { d.id : d \in Range(s.result) }

----------------------------------------------------------------------------
(* Claims about the risk scorer, checked under SpecRisk *)

\* the trusted domains the sender's and the receiver's domain both equal
SharedTrusted ==
    { i \in 1..Len(trusted_domains) :
        /\ DomainOf(r_sender) = trusted_domains[i]
        /\ DomainOf(r_receiver) = trusted_domains[i] }

\* C8: the external-communication flag is 1 exactly when, for every trusted
\* domain, the sender's or the receiver's domain differs from it, and 0 exactly
\* when sender and receiver share some trusted domain. (With no category the
\* score is the flag.)
C8_FlagIffNoSharedTrustedDomain ==
    (r_pc = "done" /\ r_categories = <<>>) =>
        /\ r_score \in {0, 1000}
        /\ r_score = 1000 <=> SharedTrusted = {}

\* the weight the table holds for an entry's name, none counting as zero
EntryWeight(entry) ==
    LET name == Strip(entry)
    IN  IF name \in DOMAIN weights /\ weights[name] # None THEN weights[name][1] ELSE 0

RECURSIVE WeightOfFirst(_)
WeightOfFirst(n) ==
    IF n = 0 THEN 0 ELSE WeightOfFirst(n - 1) + EntryWeight(r_categories[n])

WeightTotal == WeightOfFirst(Len(r_categories))

\* the hundredths nearest to a number of thousandths, the even one on a tie
NearestHundredth(milli) ==
    LET below == (milli \div 10) * 10
        above == below + 10
    IN  IF milli - below < above - milli THEN below
        ELSE IF milli - below > above - milli THEN above
        ELSE IF (below \div 10) % 2 = 0 THEN below ELSE above

\* C9 as stated: the score equals the sum over the entries of the configured
\* weight plus the external flag, which is 0 or 1.
C9_ScoreIsSumPlusFlag ==
    r_pc = "done" => \E flag \in {0, 1} : r_score = WeightTotal + flag * 1000

\* C9 as amended: the score equals, rounded to two decimal places, the sum over
\* the entries of the configured weight of the entry's trimmed name (zero for a
\* name the weight table has none for) plus the external flag, which is 0 or 1;
\* so an unknown category alone scores the flag, and with x.com the only trusted
\* domain and weight(Secrecy) = 10, ["Secrecy"] scores 10 from a@x.com to
\* b@x.com and 11 from a@x.com to b@y.com.
C9_ScoreIsRoundedSumPlusFlag ==
    r_pc = "done" =>
        /\ \E flag \in {0, 1} : r_score = NearestHundredth(WeightTotal + flag * 1000)
        /\ r_categories = <<Unknown>> => r_score \in {0, 1000}
        /\ ( /\ trusted_domains = <<xcom>>
             /\ weights[Secrecy] = Some(10000)
             /\ r_categories = <<Secrecy>>
             /\ r_sender = a_at_x )
           => /\ r_receiver = b_at_x => r_score = 10000
              /\ r_receiver = b_at_y => r_score = 11000

C9_Witness ==
    /\ r_pc = "done"
    /\ r_categories = <<Market, SpSecrecy>>
    /\ weights[Market] = Some(2125)
    /\ trusted_domains = <<xcom>>
    /\ r_receiver = b_at_y
    /\ r_score = 13120

----------------------------------------------------------------------------
(* The risk scorer on its own: every configuration and argument, one call *)

----------------------------------------------------------------------------
(* classify_email for the row of a one-row file, under either search type and *)
(* over stores with and without examples                                      *)

\* the risk scorer harness at rest
RiskAtRest ==
    /\ r_pc = "done"
    /\ r_categories = <<>>
    /\ r_sender = a_at_x
    /\ r_receiver = a_at_x
    /\ r_score = 0

\* the locals of classify_batch and classify_email before the first row
LocalsAtStart ==
    /\ idx = 1
    /\ similar_docs = <<>>
    /\ prompt_input = <<>>
    /\ response = <<>>
    /\ parsed = <<>>
    /\ results = <<>>
    /\ returned = <<>>
    /\ errors = {}
    /\ lookup_failed = {}
    /\ said_yes = {}

\* the example rows a store was loaded with
StoredRows ==
    { [Classification |-> "Non-Compliant", Category |-> CatStr(Secrecy), From |-> a_at_x,
       To |-> b_at_y, Body |-> BodyTexts[1]],
      [Classification |-> "Compliant", Category |-> CatNaN, From |-> a_at_x,
       To |-> b_at_x, Body |-> BodyTexts[2]] }

\* the persisted stores: none, or the bootstrap record and the loaded examples
PersistedStores ==
    {<<>>} \cup { save(<<Placeholder>> \o documents_of(rows, <<Placeholder>>)) :
                    rows \in SeqsUpTo(StoredRows, MaxDocs) }

EmailInit ==
    /\ trusted_domains = <<xcom>>
    /\ weights = DefaultWeights
    /\ search_type \in {"similarity", "similarity_score_threshold"}
    /\ RiskAtRest
    /\ disk \in PersistedStores
    /\ mgr = [h \in Handles |-> IF h = "classifier" THEN <<load_or_create(disk)>> ELSE <<>>]
    /\ added = {}
    /\ last_search = <<>>
    /\ batch \in { <<e>> : e \in Emails }
    /\ b_pc = "retrieve"
    /\ LocalsAtStart
    /\ calls = <<0>>
    /\ log = <<>>
    /\ last_ingest = <<>>
    /\ last_lookup = <<>>
    /\ SharedAtRest

EmailNext ==
    \/ Retrieve /\ UNCHANGED <<configVars, sharedVars, riskVars, added, last_search, callVars>>
    \/ BuildPrompt /\ UNCHANGED <<configVars, sharedVars, riskVars, added, last_search, callVars>>
    \/ Invoke /\ UNCHANGED <<configVars, sharedVars, riskVars, added, last_search, callVars>>
    \/ Parse /\ UNCHANGED <<configVars, sharedVars, riskVars, added, last_search, callVars>>
    \/ Score /\ UNCHANGED <<configVars, sharedVars, riskVars, added, last_search, callVars>>

SpecEmail == EmailInit /\ [][EmailNext]_vars

\* C15: when retrieval yields no examples for an email, the examples field of the
\* prompt input classify_email builds is the no-examples sentinel text that
\* format_examples_for_prompt produces, not the empty string.
C15_NoExamplesSentinel ==
    (prompt_input # <<>> /\ similar_docs = <<>>)
        => /\ prompt_input[1].examples = format_examples_for_prompt(similar_docs)
           /\ prompt_input[1].examples # ""

----------------------------------------------------------------------------
(* "Parse result" and "Calculate risk score" of classify_email, for every form *)
(* of Category a verdict may carry                                             *)

\* the Category values of a verdict: absent, null, texts and lists of texts, a number
VerdictCategories ==
    {CatAbsent, CatNone, CatNum}
        \cup { CatStr(t) : t \in {<<>>, nan, Secrecy, Compliant, SpSecrecy,
                                  Join(<<Secrecy, Market>>, <<",", " ">>)} }
        \cup { CatList(names) : names \in SeqsUpTo({Secrecy, Market, nan}, MaxCats) }

Verdicts == { Verdict(flag, cat, "list") : flag \in {"Yes", "No"}, cat \in VerdictCategories }

\* classify_email has retrieved, built the prompt and received the model's answer
VerdictInit ==
    /\ trusted_domains = <<xcom>>
    /\ weights = DefaultWeights
    /\ search_type = "similarity"
    /\ RiskAtRest
    /\ disk = <<>>
    /\ mgr = [h \in Handles |-> IF h = "classifier" THEN <<load_or_create(disk)>> ELSE <<>>]
    /\ added = {}
    /\ last_search = <<>>
    /\ batch \in { <<e>> : e \in Emails }
    /\ b_pc = "parse"
    /\ idx = 1
    /\ similar_docs = get_relevant_documents(mgr["classifier"][1], batch[1].Body)
    /\ prompt_input = <<build_prompt_input(batch[1], similar_docs)>>
    /\ response \in { <<v>> : v \in Verdicts }
    /\ parsed = <<>>
    /\ results = <<>>
    /\ returned = <<>>
    /\ errors = {}
    /\ lookup_failed = {}
    /\ said_yes = {}
    /\ calls = <<1>>
    /\ log = <<"Retrieval", "Prompt", "Model">>
    /\ last_ingest = <<>>
    /\ last_lookup = <<>>
    /\ SharedAtRest

VerdictNext ==
    \/ Parse /\ UNCHANGED <<configVars, sharedVars, riskVars, added, last_search, callVars>>
    \/ Score /\ UNCHANGED <<configVars, sharedVars, riskVars, added, last_search, callVars>>

SpecVerdict == VerdictInit /\ [][VerdictNext]_vars

\* the names of a category text: its pieces between commas, trimmed
NamesOf(text) ==
    LET pieces == Split(text, ",")
    IN  [i \in 1..Len(pieces) |-> Strip(pieces[i])]

\* C16: the Category of the result of a verdict is, for a list, the comma-joined
\* string of its elements (the names between its commas are the elements, in
\* order); for the literal "nan" and for an empty value (empty string, empty
\* list, absent) it is "Compliant"; and the result's risk score is the score of
\* the comma-split, trimmed names of that Category text.
C16_CategoryNormalized ==
    /\ (parsed # <<>> /\ parsed[1].category.is_text) =>
          LET cat == response[1].Category
              text == parsed[1].category.text
          IN  /\ (cat.t = "list" /\ cat.v # <<>>) => NamesOf(text) = cat.v
              /\ cat \in {CatStr(nan), CatStr(<<>>), CatList(<<>>), CatAbsent}
                    => text = Compliant
    /\ \A k \in 1..Len(results) :
          results[k].Risk_Score =
              calculate_risk_score(trusted_domains, weights, NamesOf(results[k].Category),
                                   results[k].From, results[k].To)

C16_Witness ==
    /\ b_pc = "returned"
    /\ Len(results) = 1
    /\ results[1].Category = Join(<<Market, Secrecy>>, <<",", " ">>)
    /\ results[1].Risk_Score > 1000

----------------------------------------------------------------------------
(* The filter and the sort at the end of classify_batch, for every list of *)
(* results of up to MaxResults classified rows                             *)

MaxResults == 5

\* the results classify_email may have returned for a row: either
\* classification, with one of four risk scores
ResultPool ==
    { [Classification |-> c, Risk_Score |-> score] :
        c \in {"Non-Compliant", "Compliant"}, score \in {1000, 3000, 7000, 9000} }

\* the list results of classify_batch after its loop, every row classified
ResultsOf(picks) ==
    [i \in 1..Len(picks) |->
        build_result([From |-> a_at_x, To |-> b_at_x, Body |-> BodyTexts[1]], i,
                     picks[i].Classification,
                     IF picks[i].Classification = "Compliant" THEN Compliant ELSE Secrecy,
                     picks[i].Risk_Score)]

\* classify_batch has classified the last row and is about to filter and sort
SortInit ==
    /\ trusted_domains = <<xcom>>
    /\ weights = DefaultWeights
    /\ search_type = "similarity"
    /\ RiskAtRest
    /\ disk = <<>>
    /\ mgr = [h \in Handles |-> IF h = "classifier" THEN <<load_or_create(disk)>> ELSE <<>>]
    /\ added = {}
    /\ last_search = <<>>
    /\ results \in { ResultsOf(picks) : picks \in SeqsUpTo(ResultPool, MaxResults) \ {<<>>} }
    /\ batch = [i \in 1..Len(results) |->
                  [From |-> results[i].From, To |-> results[i].To, Body |-> results[i].Body]]
    /\ b_pc = "filter"
    /\ idx = Len(batch)
    /\ similar_docs = <<>>
    /\ prompt_input = <<>>
    /\ response = <<>>
    /\ parsed = <<>>
    /\ returned = <<>>
    /\ errors = {}
    /\ lookup_failed = {}
    /\ said_yes = { i \in 1..Len(results) : results[i].Classification = "Non-Compliant" }
    /\ calls = [i \in 1..Len(batch) |-> 1]
    /\ log = StageOrder
    /\ last_ingest = <<>>
    /\ last_lookup = <<>>
    /\ SharedAtRest

\* "Filter non-compliant and sort by risk score", and the return
FilterAndSort ==
    /\ b_pc = "filter"
    /\ returned' = <<filter_and_sort(results)>>
    /\ b_pc' = "returned"
    /\ UNCHANGED <<batch, idx, similar_docs, prompt_input, response, parsed, results, errors,
                   lookup_failed, said_yes, calls, log>>

SpecSort ==
    SortInit /\ [][FilterAndSort /\ UNCHANGED <<configVars, sharedVars, riskVars, storeVars, callVars>>]_vars

\* the scores and the classifications of the results, and the scores and rows returned
ScoresOf(rs) == [i \in 1..Len(rs) |-> rs[i].Risk_Score]
ClassesOf(rs) == [i \in 1..Len(rs) |-> rs[i].Classification]
RowsOf(rs) == [i \in 1..Len(rs) |-> rs[i].idx]

\* five classified emails with the risk scores 3, 9, 9, 1, 7
ExampleScores == ScoresOf(results) = <<3000, 9000, 9000, 1000, 7000>>

\* C22 as stated: for risk scores [3, 9, 9, 1, 7] and classifications
\* [NC, NC, C, NC, NC], classify_batch returns the 4 non-compliant results sorted
\* as [9, 9, 7, 1].
C22_ExampleAsStated ==
    ( /\ b_pc = "returned"
      /\ ExampleScores
      /\ ClassesOf(results) = <<"Non-Compliant", "Non-Compliant", "Compliant",
                                "Non-Compliant", "Non-Compliant">> )
        => ScoresOf(Returned) = <<9000, 9000, 7000, 1000>>

\* C22 as amended: for risk scores [3, 9, 9, 1, 7] and classifications
\* [NC, NC, C, NC, NC], classify_batch returns exactly the 4 non-compliant
\* results, rows 2, 5, 1, 4, sorted as [9, 7, 3, 1]: the third email, compliant
\* with score 9, is not returned. With classifications [NC, NC, NC, C, NC] it
\* returns rows 2, 3, 5, 1, sorted as [9, 9, 7, 3], the tied 9s in input order.
C22_ExampleAsAmended ==
    (b_pc = "returned" /\ ExampleScores) =>
        /\ ClassesOf(results) = <<"Non-Compliant", "Non-Compliant", "Compliant",
                                  "Non-Compliant", "Non-Compliant">>
              => /\ ScoresOf(Returned) = <<9000, 7000, 3000, 1000>>
                 /\ RowsOf(Returned) = <<2, 5, 1, 4>>
        /\ ClassesOf(results) = <<"Non-Compliant", "Non-Compliant", "Non-Compliant",
                                  "Compliant", "Non-Compliant">>
              => /\ ScoresOf(Returned) = <<9000, 9000, 7000, 3000>>
                 /\ RowsOf(Returned) = <<2, 3, 5, 1>>

C22_Witness ==
    /\ b_pc = "returned"
    /\ ExampleScores
    /\ ClassesOf(results) = <<"Non-Compliant", "Non-Compliant", "Compliant",
                              "Non-Compliant", "Non-Compliant">>
    /\ Len(Returned) = 4
    /\ Returned[1].idx = 2

----------------------------------------------------------------------------
(* Ingestion: load_sample_data and add_classified_emails on the classifier's *)
(* store, for rows of every Classification and Category                      *)

\* the Classification cells of a row: the labels in both casings, or no column
ClassificationCells == {"Compliant", "compliant", "Non-Compliant", "non-compliant", Absent}

\* the Category cells of a row
CategoryCells ==
    {CatStr(Compliant), CatAbsent, CatNone, CatStr(<<>>), CatNaN, CatStr(Secrecy),
     CatStr(Unknown)}

\* the rows of a sample file or data frame
SampleRows ==
    { [Classification |-> c, Category |-> g, From |-> a_at_x, To |-> b_at_x,
       Body |-> BodyTexts[1]] : c \in ClassificationCells, g \in CategoryCells }

\* the rows classify_email can return for the verdicts of the model
ClassifiedRows ==
    { row_of_result(build_result(e, 1, classification_of(v), normalize_category(v).text, 0)) :
        e \in { x \in Emails : x.From # NaN },
        v \in { o \in ModelOutputs : o.kind = "dict" /\ normalize_category(o).is_text } }

\* the rows one call may be given: as many as the store still has room for
RowsFrom(pool) ==
    { rows \in SeqsUpTo(pool, MaxDocs) :
        rows # <<>> /\ Len(mgr["classifier"][1]) + Len(rows) <= MaxDocs + 1 }

LoadSampleData == \E rows \in RowsFrom(SampleRows) : load_sample_data(rows)

UpdateVectorstoreWithClassified == \E df \in RowsFrom(ClassifiedRows) : add_classified_emails(df)

IngestInit ==
    /\ trusted_domains = <<xcom>>
    /\ weights = DefaultWeights
    /\ search_type = "similarity"
    /\ r_pc = "done"
    /\ r_categories = <<>>
    /\ r_sender = a_at_x
    /\ r_receiver = a_at_x
    /\ r_score = 0
    /\ disk = <<>>
    /\ mgr = [h \in Handles |-> IF h = "classifier" THEN <<load_or_create(disk)>> ELSE <<>>]
    /\ added = {}
    /\ last_search = <<>>
    /\ batch = <<>>
    /\ b_pc = "off"
    /\ idx = 1
    /\ similar_docs = <<>>
    /\ prompt_input = <<>>
    /\ response = <<>>
    /\ parsed = <<>>
    /\ results = <<>>
    /\ returned = <<>>
    /\ errors = {}
    /\ lookup_failed = {}
    /\ said_yes = {}
    /\ calls = <<>>
    /\ log = <<>>
    /\ last_ingest = <<>>
    /\ last_lookup = <<>>
    /\ SharedAtRest

IngestNext ==
    \/ LoadSampleData /\ UNCHANGED <<configVars, sharedVars, riskVars, batchVars, last_lookup>>
    \/ UpdateVectorstoreWithClassified
          /\ UNCHANGED <<configVars, sharedVars, riskVars, batchVars, last_lookup>>

SpecIngest == IngestInit /\ [][IngestNext]_vars

\* the Example Records of the classifier's store: all but the bootstrap record
ExampleRecords ==
    { d \in Range(mgr["classifier"][1]) : d.id # Placeholder.id }

\* C13: after any sequence of load_sample_data and add_classified_emails, an
\* Example Record classified Compliant has the category set {Compliant}, and one
\* classified Non-Compliant has a non-empty category set whose members all are
\* in the configured category vocabulary.
C13_RecordInvariant ==
    \A d \in ExampleRecords :
        /\ d.metadata.Classification = "Compliant"
              => d.metadata.Category = CatList(<<Compliant>>)
        /\ d.metadata.Classification = "Non-Compliant"
              => /\ d.metadata.Category.t = "list"
                 /\ d.metadata.Category.v # <<>>
                 /\ Range(d.metadata.Category.v) \subseteq settings_categories

\* the row a stored record is when it is ingested again
row_of_document(d) ==
    [Classification |-> d.metadata.Classification, Category |-> d.metadata.Category,
     From |-> d.metadata.From, To |-> d.metadata.To, Body |-> d.page_content]

\* C14: a row whose Category is "Compliant" or missing (no column, None, empty
\* string, or the missing value of the tabular loader) is stored with the
\* category set {Compliant}, whatever the casing of its Classification; and
\* normalizing a stored record again gives the same record.
C14_MissingCategoryIsCompliant ==
    \A c \in Range(last_ingest) : \A i \in 1..Len(c.rows) :
        LET d == mgr["classifier"][1][c.first + i - 1]
        IN  /\ c.rows[i].Category \in {CatStr(Compliant), CatAbsent, CatNone, CatStr(<<>>), CatNaN}
                  => d.metadata.Category = CatList(<<Compliant>>)
            /\ create_document_from_row(row_of_document(d), d.id) = d

----------------------------------------------------------------------------
(* ComplianceRetriever: the lookups of the Retrieval Layer over a loaded store *)

\* how many example rows the retriever's store was loaded with, at most
MaxIndex == 4

\* the place of a letter in code point order (0 for any other character)
Ord(c) ==
    LET letters == UpperLetters \o LowerLetters
    IN  IF \E i \in 1..Len(letters) : letters[i] = c
        THEN CHOOSE i \in 1..Len(letters) : letters[i] = c
        ELSE 0

\* a < b for two strs
RECURSIVE TextLess(_, _)
TextLess(a, b) ==
    IF b = <<>> THEN FALSE
    ELSE IF a = <<>> THEN TRUE
    ELSE IF Ord(Head(a)) < Ord(Head(b)) THEN TRUE
    ELSE IF Ord(Head(a)) > Ord(Head(b)) THEN FALSE
    ELSE TextLess(Tail(a), Tail(b))

RECURSIVE InsertText(_, _)
InsertText(t, sorted) ==
    IF sorted = <<>> THEN <<t>>
    ELSE IF TextLess(t, Head(sorted)) THEN <<t>> \o sorted
    ELSE <<Head(sorted)>> \o InsertText(t, Tail(sorted))

\* sorted(categories) for a list of strs
RECURSIVE Sorted(_)
Sorted(texts) ==
    IF texts = <<>> THEN <<>>
    ELSE InsertText(texts[Len(texts)], Sorted(SubSeq(texts, 1, Len(texts) - 1)))

\* a call that returned a value, and the shape of a call that raised
returns(value) == [raised |-> FALSE, value |-> value]

\* a handler that logs and raises again
lookup_except_reraise == [raised |-> TRUE, value |-> <<>>]

\* "except Exception as e: logger.error(...); return []"
lookup_except == returns(<<>>)

\* get_similar_emails(query, k): k is given its default and then not used; the
\* retriever built at construction decides how many documents come back
get_similar_emails(index, query, k, fails) ==
    LET k_or_default == IF k = None THEN SearchK ELSE k[1]
    IN  IF fails THEN lookup_except
        ELSE returns(get_relevant_documents(index, query))

\* doc.metadata.get('Category', []), as the tagged value it is
CategoryOf(doc) == MetadataGet(doc, "Category", CatList(<<>>))

\* get_similar_by_category(query, category, k): "category in <Category>" raises
\* TypeError for a Category that is a float, which the same handler catches
get_similar_by_category(index, query, category, k, fails) ==
    IF fails THEN lookup_except
    ELSE LET all_docs == similarity_search(index, query, k * 3)
         IN  IF \E i \in 1..Len(all_docs) : CategoryOf(all_docs[i]).t # "list"
             THEN lookup_except
             ELSE returns(FirstK(SelectSeq(all_docs,
                                           LAMBDA d : category \in Range(CategoryOf(d).v)),
                                 k))

\* str.lower() on a classification label
LowerLabel(label) ==
    CASE label = "Compliant" -> "compliant"
      [] label = "Non-Compliant" -> "non-compliant"
      [] OTHER -> label

\* get_similar_by_classification(query, classification, k)
get_similar_by_classification(index, query, classification, k, fails) ==
    IF fails THEN lookup_except
    ELSE LET all_docs == similarity_search(index, query, k * 3)
         IN  returns(FirstK(SelectSeq(all_docs,
                                      LAMBDA d : LowerLabel(MetadataGet(d, "Classification", ""))
                                                    = LowerLabel(classification)),
                            k))

\* sub in text, for strs
IsSubstring(sub, text) ==
    \E i \in 0..(Len(text) - Len(sub)) : SubSeq(text, i + 1, i + Len(sub)) = sub

\* search_by_sender_domain(query, domain, k)
search_by_sender_domain(index, query, domain, k, fails) ==
    IF fails THEN lookup_except
    ELSE LET all_docs == similarity_search(index, query, k * 3)
         IN  returns(FirstK(SelectSeq(all_docs,
                                      LAMBDA d : IsSubstring(domain,
                                                             Lower(MetadataGet(d, "From", <<>>)))),
                            k))

\* a key that keeps the order the categories are listed in
category_key_unsorted(doc) ==
    IF CategoryOf(doc).t = "list" THEN CategoryOf(doc).v ELSE <<nan>>

\* tuple(sorted(categories)) for a list, else (str(categories),)
category_key(doc) ==
    IF CategoryOf(doc).t = "list" THEN Sorted(CategoryOf(doc).v) ELSE <<nan>>

\* "doc in diverse_docs" for documents of an index loaded from the persist
\* directory: the same object, or Document.__eq__, the same page_content and the
\* same metadata; a float NaN in the metadata is an object of its own in every
\* loaded document and nan != nan
DocumentEq(a, b) ==
    \/ a.id = b.id
    \/ /\ a.page_content = b.page_content
       /\ (IF "metadata" \in DOMAIN a THEN <<a.metadata>> ELSE <<>>)
             = (IF "metadata" \in DOMAIN b THEN <<b.metadata>> ELSE <<>>)
       /\ "metadata" \in DOMAIN a
             => /\ a.metadata.Category # CatNaN
                /\ a.metadata.From # NaN
                /\ a.metadata.To # NaN

\* "First pass: one from each category"
RECURSIVE first_pass(_, _, _, _)
first_pass(all_docs, k, diverse_docs, seen_categories) ==
    IF all_docs = <<>> THEN diverse_docs
    ELSE IF category_key(Head(all_docs)) \in seen_categories
         THEN first_pass(Tail(all_docs), k, diverse_docs, seen_categories)
    ELSE IF Len(diverse_docs) + 1 >= k THEN Append(diverse_docs, Head(all_docs))
    ELSE first_pass(Tail(all_docs), k, Append(diverse_docs, Head(all_docs)),
                    seen_categories \cup {category_key(Head(all_docs))})

\* "Second pass: fill remaining slots with most similar": "doc not in
\* diverse_docs" compares documents by value
RECURSIVE second_pass(_, _, _)
second_pass(all_docs, k, diverse_docs) ==
    IF Len(diverse_docs) >= k \/ all_docs = <<>> THEN diverse_docs
    ELSE IF \E i \in 1..Len(diverse_docs) : DocumentEq(Head(all_docs), diverse_docs[i])
         THEN second_pass(Tail(all_docs), k, diverse_docs)
    ELSE second_pass(Tail(all_docs), k, Append(diverse_docs, Head(all_docs)))

\* get_diverse_examples(query, k); when the search raises, the handler returns
\* what get_similar_emails(query, k) returns
get_diverse_examples(index, query, k, fails, fallback_fails) ==
    IF fails THEN get_similar_emails(index, query, Some(k), fallback_fails)
    ELSE LET all_docs == similarity_search(index, query, k * 2)
         IN  returns(second_pass(all_docs, k, first_pass(all_docs, k, <<>>, {})))

\* the example rows the retriever's store may hold
RetrieverRows ==
    { [Classification |-> "Non-Compliant", Category |-> g, From |-> a_at_x, To |-> b_at_y,
       Body |-> BodyTexts[1]] :
         g \in {CatStr(Secrecy), CatStr(Market), CatList(<<Secrecy, Market>>),
                CatList(<<Market, Secrecy>>)} }
      \cup { [Classification |-> "Non-Compliant", Category |-> CatStr(Secrecy), From |-> b_at_y,
              To |-> a_at_x, Body |-> BodyTexts[2]],
             [Classification |-> "compliant", Category |-> CatNaN, From |-> a_at_x,
              To |-> b_at_x, Body |-> BodyTexts[2]] }

\* the record of a lookup: the call, whether the store raised in it (and in the
\* lookup its handler falls back on), and how the call ended
Lookup(op, query, k, arg, fails, fallback_fails, out) ==
    [op |-> op, query |-> query, k |-> k, arg |-> <<arg>>, fails |-> fails,
     fallback_fails |-> fallback_fails, out |-> out]

Queries == {BodyTexts[1], BodyTexts[2]}

\* The lookups leave nothing behind in the retriever or the store, so the model
\* follows one lookup from each store.

GetSimilarEmails ==
    /\ last_lookup = <<>>
    /\ \E query \in Queries : \E k \in {None} \cup { Some(n) : n \in 1..SearchK } :
      \E fails \in BOOLEAN :
        last_lookup' = << Lookup("get_similar_emails", query, k, <<>>, fails, FALSE,
                                 get_similar_emails(mgr["retriever"][1], query, k, fails)) >>

GetSimilarByCategory ==
    /\ last_lookup = <<>>
    /\ \E query \in Queries : \E category \in {Secrecy, Market} : \E k \in {1, SearchK} :
      \E fails \in BOOLEAN :
        last_lookup' = << Lookup("get_similar_by_category", query, Some(k), category, fails,
                                 FALSE,
                                 get_similar_by_category(mgr["retriever"][1], query, category,
                                                         k, fails)) >>

GetSimilarByClassification ==
    /\ last_lookup = <<>>
    /\ \E query \in Queries : \E classification \in {"compliant", "non-compliant"} :
      \E k \in {1, SearchK} : \E fails \in BOOLEAN :
        last_lookup' = << Lookup("get_similar_by_classification", query, Some(k),
                                 classification, fails, FALSE,
                                 get_similar_by_classification(mgr["retriever"][1], query,
                                                               classification, k, fails)) >>

SearchBySenderDomain ==
    /\ last_lookup = <<>>
    /\ \E query \in Queries : \E domain \in {xcom, ycom} : \E k \in {1, SearchK} :
      \E fails \in BOOLEAN :
        last_lookup' = << Lookup("search_by_sender_domain", query, Some(k), domain, fails,
                                 FALSE,
                                 search_by_sender_domain(mgr["retriever"][1], query, domain,
                                                         k, fails)) >>

GetDiverseExamples ==
    /\ last_lookup = <<>>
    /\ \E query \in Queries : \E k \in 1..SearchK :
      \E fails \in BOOLEAN : \E fallback_fails \in BOOLEAN :
        /\ fallback_fails => fails
        /\ last_lookup' = << Lookup("get_diverse_examples", query, Some(k), <<>>, fails,
                                    fallback_fails,
                                    get_diverse_examples(mgr["retriever"][1], query, k, fails,
                                                         fallback_fails)) >>

\* a ComplianceRetriever constructed over a persisted store
RetrieverInit ==
    /\ trusted_domains = <<xcom>>
    /\ weights = DefaultWeights
    /\ search_type = "similarity"
    /\ RiskAtRest
    /\ disk \in { save(<<Placeholder>> \o documents_of(rows, <<Placeholder>>)) :
                    rows \in SeqsUpTo(RetrieverRows, MaxIndex) }
    /\ mgr = [h \in Handles |-> IF h = "retriever" THEN <<load_or_create(disk)>> ELSE <<>>]
    /\ added = {}
    /\ last_search = <<>>
    /\ batch = <<>>
    /\ b_pc = "off"
    /\ LocalsAtStart
    /\ calls = <<>>
    /\ log = <<>>
    /\ last_ingest = <<>>
    /\ last_lookup = <<>>
    /\ SharedAtRest

RetrieverNext ==
    \/ GetSimilarEmails
         /\ UNCHANGED <<configVars, sharedVars, riskVars, storeVars, batchVars, last_ingest>>
    \/ GetSimilarByCategory
         /\ UNCHANGED <<configVars, sharedVars, riskVars, storeVars, batchVars, last_ingest>>
    \/ GetSimilarByClassification
         /\ UNCHANGED <<configVars, sharedVars, riskVars, storeVars, batchVars, last_ingest>>
    \/ SearchBySenderDomain
         /\ UNCHANGED <<configVars, sharedVars, riskVars, storeVars, batchVars, last_ingest>>
    \/ GetDiverseExamples
         /\ UNCHANGED <<configVars, sharedVars, riskVars, storeVars, batchVars, last_ingest>>

SpecRetriever == RetrieverInit /\ [][RetrieverNext]_vars

----------------------------------------------------------------------------
(* Claims about the Retrieval Layer, checked under SpecRetriever *)

\* the lookup made, its result, and the candidates the store ranks for its query
TheLookup == last_lookup[1]
Found == TheLookup.out.value
Candidates(n) == similarity_search(mgr["retriever"][1], TheLookup.query, n)

\* the category set of a record: the set of the names of its Category (none for
\* the bootstrap record); a Category that is no list counts as a value of its own
CategorySet(d) == IF CategoryOf(d).t = "list" THEN Range(CategoryOf(d).v) ELSE {NaN}

\* the positions of the candidates that are the highest-ranked of their category set
FirstOfSet(cand) ==
    { i \in 1..Len(cand) : \A j \in 1..(i - 1) : CategorySet(cand[j]) # CategorySet(cand[i]) }

\* the n-th smallest member of a set of numbers
Nth(S, n) == CHOOSE x \in S : Cardinality({ y \in S : y < x }) = n - 1

DiverseReturned ==
    /\ last_lookup # <<>>
    /\ TheLookup.op = "get_diverse_examples"
    /\ ~TheLookup.fails

\* C17: when the 2k candidates hold at least k distinct category sets,
\* get_diverse_examples(query, k) returns exactly k records, with pairwise
\* distinct category sets, each the highest-ranked candidate of its category
\* set, in search rank order.
C17_DiverseCoversCategories ==
    DiverseReturned =>
        LET k == TheLookup.k[1]
            cand == Candidates(2 * k)
            firsts == FirstOfSet(cand)
        IN  Cardinality(firsts) >= k =>
                /\ Len(Found) = k
                /\ \A i, j \in 1..Len(Found) :
                      i # j => CategorySet(Found[i]) # CategorySet(Found[j])
                /\ \A j \in 1..k : Found[j].id = cand[Nth(firsts, j)].id

\* candidates of the category sets A, A, B, C in rank order and k = 3: one each
\* of A, B and C comes back
C17_Witness ==
    /\ DiverseReturned
    /\ TheLookup.k = Some(3)
    /\ LET cand == Candidates(6)
       IN  /\ Len(cand) >= 4
           /\ CategorySet(cand[1]) = {Secrecy}
           /\ CategorySet(cand[2]) = {Secrecy}
           /\ CategorySet(cand[3]) = {Secrecy, Market}
           /\ CategorySet(cand[4]) = {Market}
           /\ <<Found[1].id, Found[2].id, Found[3].id>> = <<cand[1].id, cand[3].id, cand[4].id>>

Min(a, b) == IF a <= b THEN a ELSE b

\* the positions get_diverse_examples is to return, in the order it returns them:
\* the first k of FirstOfSet, then the highest-ranked of the others
ExpectedPositions(cand, k) ==
    LET firsts == FirstOfSet(cand)
        n1 == Min(k, Cardinality(firsts))
        picked == { Nth(firsts, j) : j \in 1..n1 }
        others == (1..Len(cand)) \ picked
        n2 == Min(k - n1, Cardinality(others))
    IN  [j \in 1..(n1 + n2) |-> IF j <= n1 THEN Nth(firsts, j) ELSE Nth(others, j - n1)]

\* C18: get_diverse_examples(query, k) returns exactly min(k, number of
\* candidates) records and no stored record twice; the slots left after pass 1
\* hold the highest-ranked candidates not selected before, in rank order, also
\* when such a candidate has the body and labels of a selected record.
C18_DiverseFillsSlots ==
    DiverseReturned =>
        LET k == TheLookup.k[1]
            cand == Candidates(2 * k)
            expected == ExpectedPositions(cand, k)
        IN  /\ Len(Found) = Min(k, Len(cand))
            /\ \A i, j \in 1..Len(Found) : i # j => Found[i].id # Found[j].id
            /\ Len(Found) = Len(expected)
            /\ \A j \in 1..Len(Found) : Found[j].id = cand[expected[j]].id

\* C19: get_similar_emails(query, k) returns at most k records when k is given
\* and at most the configured k when it is not, nearest first.
C19_SimilarAtMostK ==
    (last_lookup # <<>> /\ TheLookup.op = "get_similar_emails" /\ ~TheLookup.fails) =>
        /\ Len(Found) <= (IF TheLookup.k = None THEN SearchK ELSE TheLookup.k[1])
        /\ \A i, j \in 1..Len(Found) :
              i < j => Dist(TheLookup.query, Found[i]) <= Dist(TheLookup.query, Found[j])

\* C20: no lookup lets a failure of the store reach its caller: when the search
\* raises, get_similar_emails, get_similar_by_category,
\* get_similar_by_classification and search_by_sender_domain return the empty
\* list, and get_diverse_examples returns what get_similar_emails returns for the
\* query (the configured number of nearest records, or the empty list when that
\* search raises too).
C20_StoreFailureContained ==
    last_lookup # <<>> =>
        /\ ~TheLookup.out.raised
        /\ (TheLookup.fails /\ TheLookup.op # "get_diverse_examples") => Found = <<>>
        /\ (TheLookup.fails /\ TheLookup.op = "get_diverse_examples") =>
              Found = IF TheLookup.fallback_fails THEN <<>> ELSE Candidates(SearchK)

C20_Witness ==
    /\ last_lookup # <<>>
    /\ TheLookup.op = "get_diverse_examples"
    /\ TheLookup.fails
    /\ ~TheLookup.fallback_fails
    /\ TheLookup.k = Some(1)
    /\ Len(Found) = 3

\* the positions of the candidates whose category set has the category as a member
PositionsWith(cand, category) ==
    { i \in 1..Len(cand) : category \in CategorySet(cand[i]) }

\* C21: get_similar_by_category(query, category, k) returns the first k, in rank
\* order, of those among the 3k nearest candidates whose category set has the
\* category as a member: at most k records, each with the category in its
\* category set, and none of them passed over for a lower-ranked one.
C21_ByCategoryFirstK ==
    (last_lookup # <<>> /\ TheLookup.op = "get_similar_by_category" /\ ~TheLookup.fails) =>
        LET k == TheLookup.k[1]
            cand == Candidates(3 * k)
            with == PositionsWith(cand, TheLookup.arg[1])
        IN  /\ Len(Found) = Min(k, Cardinality(with))
            /\ \A j \in 1..Len(Found) :
                  /\ TheLookup.arg[1] \in CategorySet(Found[j])
                  /\ Found[j].id = cand[Nth(with, j)].id

----------------------------------------------------------------------------
(* Classification results fed back into the store by add_classified_emails, *)
(* and the lookups of a ComplianceRetriever built afterwards                *)

\* the keys one document adds to the category histogram: its categories if its
\* Category is a list, else the str of its Category
HistogramKeys(doc) == IF CategoryOf(doc).t = "list" THEN CategoryOf(doc).v ELSE <<nan>>

\* get_context_for_email: the category_distribution of the examples
RECURSIVE CountOver(_, _)
CountOver(docs, key) ==
    IF docs = <<>> THEN 0
    ELSE LET keys == HistogramKeys(Head(docs))
         IN  Cardinality({ i \in 1..Len(keys) : keys[i] = key }) + CountOver(Tail(docs), key)

category_distribution(docs) ==
    [key \in UNION { Range(HistogramKeys(docs[i])) : i \in 1..Len(docs) } |->
        CountOver(docs, key)]

\* get_context_for_email(subject, body, use_diverse): the query is the subject,
\* a blank and the body; the examples come from get_diverse_examples or
\* get_similar_emails, both of which return [] when the store raises
get_context_for_email(index, subject, body, use_diverse, fails, fallback_fails) ==
    LET query == subject \o " " \o body
        looked == IF use_diverse
                  THEN get_diverse_examples(index, query, SearchK, fails, fallback_fails)
                  ELSE get_similar_emails(index, query, None, fails)
        similar_docs_ == looked.value
    IN  IF looked.raised THEN looked
        ELSE returns([similar_documents |-> similar_docs_,
                      formatted_examples |-> format_examples_for_prompt(similar_docs_),
                      num_examples |-> Len(similar_docs_),
                      category_distribution |-> category_distribution(similar_docs_)])

\* ComplianceRetriever.__init__: the retriever opens the persisted store
NewRetriever == NewManager("retriever") /\ UNCHANGED last_ingest

GetContextForEmail ==
    /\ last_lookup = <<>>
    /\ mgr["retriever"] # <<>>
    /\ \E subject \in {"body"} : \E body \in {"1", "2"} : \E use_diverse \in BOOLEAN :
      \E fails \in BOOLEAN : \E fallback_fails \in BOOLEAN :
        /\ fallback_fails => (fails /\ use_diverse)
        /\ last_lookup' = << Lookup("get_context_for_email", subject \o " " \o body,
                                    Some(SearchK), use_diverse, fails, fallback_fails,
                                    get_context_for_email(mgr["retriever"][1], subject, body,
                                                          use_diverse, fails, fallback_fails)) >>

FeedbackNext ==
    \/ /\ last_lookup = <<>>
       /\ UpdateVectorstoreWithClassified
       /\ UNCHANGED <<configVars, sharedVars, riskVars, batchVars, last_lookup>>
    \/ NewRetriever /\ UNCHANGED <<configVars, sharedVars, riskVars, batchVars, last_lookup>>
    \/ /\ mgr["retriever"] # <<>>
       /\ GetSimilarByCategory
       /\ UNCHANGED <<configVars, sharedVars, riskVars, storeVars, batchVars, last_ingest>>
    \/ GetContextForEmail
          /\ UNCHANGED <<configVars, sharedVars, riskVars, storeVars, batchVars, last_ingest>>

SpecFeedback == IngestInit /\ [][FeedbackNext]_vars

\* the records of the retriever's store that the last add_classified_emails
\* call made of a result carrying several categories, and those categories
FedBack(d) ==
    /\ last_ingest # <<>>
    /\ last_ingest[1].op = "add_classified_emails"
    /\ d.id - last_ingest[1].first + 2 \in 1..Len(last_ingest[1].rows)

ResultCategories(d) ==
    category_list(last_ingest[1].rows[d.id - last_ingest[1].first + 2].Category.v[1])

SeveralFedBack ==
    IF mgr["retriever"] = <<>> THEN {}
    ELSE { d \in Range(mgr["retriever"][1]) :
             FedBack(d) /\ Cardinality(Range(ResultCategories(d))) > 1 }

\* each category of the result is a member of the record's category set
C24_MembersSeparate ==
    \A d \in SeveralFedBack : Range(ResultCategories(d)) \subseteq CategorySet(d)

\* a lookup by one of the result's categories, with the record among its
\* candidates, finds something
C24_ByCategoryFinds ==
    \A d \in SeveralFedBack :
        ( /\ last_lookup # <<>>
          /\ TheLookup.op = "get_similar_by_category"
          /\ ~TheLookup.fails
          /\ TheLookup.arg[1] \in Range(ResultCategories(d))
          /\ d \in Range(Candidates(3 * TheLookup.k[1])) )
            => Found # <<>>

\* the histogram of a context the record is an example of counts each category
C24_HistogramCounts ==
    \A d \in SeveralFedBack :
        ( /\ last_lookup # <<>>
          /\ TheLookup.op = "get_context_for_email"
          /\ ~TheLookup.out.raised
          /\ d \in Range(Found.similar_documents) )
            => \A c \in Range(ResultCategories(d)) :
                  /\ c \in DOMAIN Found.category_distribution
                  /\ Found.category_distribution[c] >= 1

\* C24: a Classification Result carrying several categories that is re-ingested
\* through add_classified_emails becomes an Example Record whose category set
\* has each of the categories as a separate member, so that
\* get_similar_by_category for one of them can return it and the category
\* histogram of get_context_for_email counts each of them.
C24_FedBackCategoriesSeparate ==
    /\ C24_MembersSeparate
    /\ C24_ByCategoryFinds
    /\ C24_HistogramCounts

----------------------------------------------------------------------------
(* SharedResources: initialize, the get_* accessors and reload_vectorstore, *)
(* called from several threads. A thread may be preempted between any two  *)
(* statements; no statement of the class takes a lock.                     *)

SharedOps == Accessors \cup {"initialize", "get_categories", "get_weights", "reload_vectorstore"}

\* where a call of initialize goes when it returns: back into the accessor that
\* called it, or to the caller
AfterInitialize(op) == IF op = "initialize" THEN "idle" ELSE "get_return"

\* a thread calls a classmethod of SharedResources
Call(t, op) ==
    /\ t_pc[t] = "idle"
    /\ op = "reload_vectorstore" => reloads < MaxReloads
    /\ t_op' = [t_op EXCEPT ![t] = op]
    /\ t_pc' = [t_pc EXCEPT ![t] = CASE op = "initialize" -> "init_check"
                                     [] op = "reload_vectorstore" -> "reload_manager"
                                     [] OTHER -> "get_check"]
    /\ reloads' = IF op = "reload_vectorstore" THEN reloads + 1 ELSE reloads
    /\ overlapped' = (overlapped \/ \E u \in Threads \ {t} : t_pc[u] # "idle")
    /\ UNCHANGED <<t_read, initialized, llm, vectorstore_manager, retriever, instances, init_runs, got>>

\* an accessor's "if not cls._initialized: cls.initialize()"
GetCheck(t) ==
    /\ t_pc[t] = "get_check"
    /\ t_pc' = [t_pc EXCEPT ![t] = IF initialized THEN "get_return" ELSE "init_check"]
    /\ UNCHANGED <<t_read, initialized, llm, vectorstore_manager, retriever, t_op, instances,
                   init_runs, reloads, overlapped, got>>

\* initialize: "if cls._initialized: return", else the body is entered
InitCheck(t) ==
    /\ t_pc[t] = "init_check"
    /\ IF initialized
       THEN /\ t_pc' = [t_pc EXCEPT ![t] = AfterInitialize(t_op[t])]
            /\ t_op' = [t_op EXCEPT ![t] = IF @ = "initialize" THEN "none" ELSE @]
            /\ UNCHANGED init_runs
       ELSE /\ t_pc' = [t_pc EXCEPT ![t] = "init_llm"]
            /\ init_runs' = init_runs + 1
            /\ UNCHANGED t_op
    /\ UNCHANGED <<t_read, initialized, llm, vectorstore_manager, retriever, instances,
                   reloads, overlapped, got>>

\* initialize: cls.llm = get_llm()
InitLlm(t) ==
    /\ t_pc[t] = "init_llm"
    /\ instances' = instances + 1
    /\ llm' = <<instances + 1>>
    /\ t_pc' = [t_pc EXCEPT ![t] = "init_manager"]
    /\ UNCHANGED <<t_read, initialized, vectorstore_manager, retriever, t_op, init_runs, reloads,
                   overlapped, got>>

\* initialize: cls.vectorstore_manager = VectorStoreManager()
InitManager(t) ==
    /\ t_pc[t] = "init_manager"
    /\ instances' = instances + 1
    /\ vectorstore_manager' = <<instances + 1>>
    /\ t_pc' = [t_pc EXCEPT ![t] = "init_retriever"]
    /\ UNCHANGED <<t_read, initialized, llm, retriever, t_op, init_runs, reloads, overlapped, got>>

\* initialize: cls.retriever = cls.vectorstore_manager.get_retriever(), first
\* the read of the class attribute the call is made on
InitRetriever(t) ==
    /\ t_pc[t] = "init_retriever"
    /\ t_read' = [t_read EXCEPT ![t] = vectorstore_manager]
    /\ t_pc' = [t_pc EXCEPT ![t] = "in_get_retriever"]
    /\ UNCHANGED <<initialized, llm, vectorstore_manager, retriever, t_op, instances,
                   init_runs, reloads, overlapped, got>>

\* get_retriever() returns a new retriever of the manager that was read, and the
\* class attribute is assigned, in initialize and in reload_vectorstore
AssignRetriever(t) ==
    /\ t_pc[t] = "in_get_retriever"
    /\ instances' = instances + 1
    /\ retriever' = << [id |-> instances + 1, of |-> t_read[t][1]] >>
    /\ t_read' = [t_read EXCEPT ![t] = <<>>]
    /\ IF t_op[t] = "reload_vectorstore"
       THEN /\ t_pc' = [t_pc EXCEPT ![t] = "idle"]
            /\ t_op' = [t_op EXCEPT ![t] = "none"]
       ELSE /\ t_pc' = [t_pc EXCEPT ![t] = "init_flag"]
            /\ UNCHANGED t_op
    /\ UNCHANGED <<initialized, llm, vectorstore_manager, init_runs, reloads, overlapped, got>>

\* initialize: categories and weights from the settings, then cls._initialized = True
InitFlag(t) ==
    /\ t_pc[t] = "init_flag"
    /\ initialized' = TRUE
    /\ t_pc' = [t_pc EXCEPT ![t] = AfterInitialize(t_op[t])]
    /\ t_op' = [t_op EXCEPT ![t] = IF @ = "initialize" THEN "none" ELSE @]
    /\ UNCHANGED <<t_read, llm, vectorstore_manager, retriever, instances, init_runs, reloads,
                   overlapped, got>>

\* the class attribute an accessor returns
Attribute(op) ==
    CASE op = "get_llm" -> llm
      [] op = "get_vectorstore_manager" -> vectorstore_manager
      [] op = "get_retriever" -> retriever

\* an accessor's return of its class attribute; get_categories and get_weights
\* return the settings' tables
GetReturn(t) ==
    /\ t_pc[t] = "get_return"
    /\ got' = IF t_op[t] \in Accessors
              THEN [got EXCEPT ![t_op[t]] = @ \cup {Attribute(t_op[t])}]
              ELSE got
    /\ t_pc' = [t_pc EXCEPT ![t] = "idle"]
    /\ t_op' = [t_op EXCEPT ![t] = "none"]
    /\ UNCHANGED <<t_read, initialized, llm, vectorstore_manager, retriever, instances,
                   init_runs, reloads, overlapped>>

\* reload_vectorstore: cls.vectorstore_manager = VectorStoreManager()
ReloadManager(t) ==
    /\ t_pc[t] = "reload_manager"
    /\ instances' = instances + 1
    /\ vectorstore_manager' = <<instances + 1>>
    /\ t_pc' = [t_pc EXCEPT ![t] = "reload_retriever"]
    /\ UNCHANGED <<t_read, initialized, llm, retriever, t_op, init_runs, reloads, overlapped, got>>

\* reload_vectorstore: cls.retriever = cls.vectorstore_manager.get_retriever(),
\* first the read of the class attribute
ReloadRetriever(t) ==
    /\ t_pc[t] = "reload_retriever"
    /\ t_read' = [t_read EXCEPT ![t] = vectorstore_manager]
    /\ t_pc' = [t_pc EXCEPT ![t] = "in_get_retriever"]
    /\ UNCHANGED <<initialized, llm, vectorstore_manager, retriever, t_op, instances,
                   init_runs, reloads, overlapped, got>>

SharedInit ==
    /\ trusted_domains = <<xcom>>
    /\ weights = DefaultWeights
    /\ search_type = "similarity"
    /\ RiskAtRest
    /\ disk = <<>>
    /\ mgr = [h \in Handles |-> <<>>]
    /\ added = {}
    /\ last_search = <<>>
    /\ batch = <<>>
    /\ b_pc = "off"
    /\ LocalsAtStart
    /\ lookup_failed = {}
    /\ said_yes = {}
    /\ calls = <<>>
    /\ log = <<>>
    /\ last_ingest = <<>>
    /\ last_lookup = <<>>
    /\ SharedAtRest

SharedNext ==
    \/ (\E t \in Threads, op \in SharedOps : Call(t, op)) /\ UNCHANGED <<configVars, riskVars, storeVars, batchVars, callVars>>
    \/ (\E t \in Threads : GetCheck(t)) /\ UNCHANGED <<configVars, riskVars, storeVars, batchVars, callVars>>
    \/ (\E t \in Threads : InitCheck(t)) /\ UNCHANGED <<configVars, riskVars, storeVars, batchVars, callVars>>
    \/ (\E t \in Threads : InitLlm(t)) /\ UNCHANGED <<configVars, riskVars, storeVars, batchVars, callVars>>
    \/ (\E t \in Threads : InitManager(t)) /\ UNCHANGED <<configVars, riskVars, storeVars, batchVars, callVars>>
    \/ (\E t \in Threads : InitRetriever(t)) /\ UNCHANGED <<configVars, riskVars, storeVars, batchVars, callVars>>
    \/ (\E t \in Threads : AssignRetriever(t)) /\ UNCHANGED <<configVars, riskVars, storeVars, batchVars, callVars>>
    \/ (\E t \in Threads : InitFlag(t)) /\ UNCHANGED <<configVars, riskVars, storeVars, batchVars, callVars>>
    \/ (\E t \in Threads : GetReturn(t)) /\ UNCHANGED <<configVars, riskVars, storeVars, batchVars, callVars>>
    \/ (\E t \in Threads : ReloadManager(t)) /\ UNCHANGED <<configVars, riskVars, storeVars, batchVars, callVars>>
    \/ (\E t \in Threads : ReloadRetriever(t)) /\ UNCHANGED <<configVars, riskVars, storeVars, batchVars, callVars>>

SpecShared == SharedInit /\ [][SharedNext]_vars

\* C23: SharedResources initializes the LLM and the vector store manager only
\* once: in every interleaving of calls of initialize, the accessors and
\* reload_vectorstore from several threads, the body of initialize is entered at
\* most once, it has run once _initialized is set, and as long as
\* reload_vectorstore was not called every accessor has returned one instance.
C23_InitializedOnce ==
    /\ init_runs <= 1
    /\ initialized => init_runs = 1
    /\ reloads = 0 => \A a \in Accessors : Cardinality(got[a]) <= 1

\* the same, for the calls of one thread at a time
C23_OnceWithoutOverlap == ~overlapped => C23_InitializedOnce

RiskInit ==
    /\ trusted_domains \in TrustedLists
    /\ weights \in WeightTables
    /\ search_type = "similarity"
    /\ r_pc = "call"
    /\ r_categories \in SeqsUpTo(CategoryNames, MaxCats)
    /\ r_sender \in {a_at_x, noat}
    /\ r_receiver \in Addresses
    /\ r_score = 0
    /\ disk = <<>>
    /\ mgr = [h \in Handles |-> <<>>]
    /\ added = {}
    /\ last_search = <<>>
    /\ batch = <<>>
    /\ b_pc = "off"
    /\ idx = 1
    /\ similar_docs = <<>>
    /\ prompt_input = <<>>
    /\ response = <<>>
    /\ parsed = <<>>
    /\ results = <<>>
    /\ returned = <<>>
    /\ errors = {}
    /\ lookup_failed = {}
    /\ said_yes = {}
    /\ calls = <<>>
    /\ log = <<>>
    /\ last_ingest = <<>>
    /\ last_lookup = <<>>
    /\ SharedAtRest

RiskCall ==
    /\ r_pc = "call"
    /\ r_score' = calculate_risk_score(trusted_domains, weights,
                                       r_categories, r_sender, r_receiver)
    /\ r_pc' = "done"
    /\ UNCHANGED <<r_categories, r_sender, r_receiver>>
    /\ UNCHANGED <<configVars, sharedVars, storeVars, batchVars, callVars>>


RiskNext == RiskCall

SpecRisk == RiskInit /\ [][RiskNext]_vars

====
